---- MODULE Spec2Model ----
(***************************************************************************)
(* A model of the saga ExecutionCoordinator of src/coordinator.go.         *)
(*                                                                         *)
(* One coordinator drives a Saga (an ordered list of steps, each a forward *)
(* Func and a CompensateFunc) through Play: it appends a Log to the shared *)
(* Store before every transition, calls the step functions by reflection,  *)
(* and on the first failing step compensates the registered steps in       *)
(* reverse order.  A failing log append, a malformed callable and a        *)
(* failing compensation all panic.                                         *)
(*                                                                         *)
(* Indices are the 0-based indices of the Go code; a TLA+ sequence is      *)
(* 1-based, so steps[i] of the code is saga.steps[i + 1] here.             *)
(*                                                                         *)
(* Play is cut into one action per log append: the append is the only      *)
(* point where two coordinators sharing a Store interact, so every         *)
(* interleaving of two coordinators is an interleaving of these actions.   *)
(* Each action runs the code from one append up to the next one.           *)
(***************************************************************************)
EXTENDS Integers, Sequences, FiniteSets, TLC

\* ------------------------------------------------------------------ bounds

\* The longest saga considered.
MaxSteps == 2

\* The longest saga two concurrent coordinators are bound to.
MaxConcurrentSteps == 1

\* The Plays invoked on one coordinator.
MaxPlays == 2

\* The coordinators of the concurrent specification.
Coordinators == {1, 2}

\* ------------------------------------------------------------- the values

\* The nil of Go: a nil error, a nil *string.
Nil == "nil"

\* The nil *int of Log.StepNumber.
NoStep == -1

\* The context.Context every callable is given first.
Ctx == "ctx"

\* The non-error values an action may return.
Values == {"42", "7"}

\* The non-nil errors an action or a compensation may return.
Errors == {"errA", "errB"}

\* The error of a faulting Store.
StoreErr == "storage fault"

\* The errors getFuncValue raises and the runtime error of an index out of range.
ErrNotFunc == "registered object must be a func"
ErrNotCtx == "first argument must use context.ctx"
ErrIndex == "index out of range"

\* The kinds of Log.
LogTypeStartSaga == "SagaStarted"
LogTypeSagaStepExec == "StepStarted"
LogTypeSagaAbort == "SagaAborted"
LogTypeSagaStepCompensate == "StepCompensating"
LogTypeSagaComplete == "SagaCompleted"

\* ---------------------------------------------------------- the callables

(* What reflection sees of a registered object: whether it is a func,      *)
(* whether its first parameter is context.Context, and how many results    *)
(* it declares.  role and step say which field of which step holds it, so  *)
(* that two callables of a saga are never equal.  The model covers the     *)
(* callables whose last result, when there is one, is of type error, and   *)
(* that accept the arguments the coordinator passes.                       *)
ActionShapes ==
  { [isFunc |-> FALSE, ctxFirst |-> FALSE, numOut |-> 0],
    [isFunc |-> TRUE, ctxFirst |-> FALSE, numOut |-> 1],
    [isFunc |-> TRUE, ctxFirst |-> TRUE, numOut |-> 0],
    [isFunc |-> TRUE, ctxFirst |-> TRUE, numOut |-> 1],
    [isFunc |-> TRUE, ctxFirst |-> TRUE, numOut |-> 2] }

CompensateShapes ==
  { [isFunc |-> FALSE, ctxFirst |-> FALSE, numOut |-> 0],
    [isFunc |-> TRUE, ctxFirst |-> FALSE, numOut |-> 1],
    [isFunc |-> TRUE, ctxFirst |-> TRUE, numOut |-> 0],
    [isFunc |-> TRUE, ctxFirst |-> TRUE, numOut |-> 1] }

Callable(shape, role, step) ==
  [isFunc |-> shape.isFunc, ctxFirst |-> shape.ctxFirst, numOut |-> shape.numOut,
   role |-> role, step |-> step]

\* The Name of step i, and the nil *string of a Log that names no step.
StepName(i) == <<"step", i>>

NoName == <<>>

\* The Saga values built before the coordinator starts: a name and 0..MaxSteps steps.
MkSaga(shapes) ==
  [Name |-> "saga",
   steps |-> [k \in 1..Len(shapes) |->
                [Name |-> StepName(k - 1),
                 Func |-> Callable(shapes[k][1], "Func", k - 1),
                 CompensateFunc |-> Callable(shapes[k][2], "CompensateFunc", k - 1)]]]

Sagas ==
  { MkSaga(shapes) :
      shapes \in UNION { [1..n -> ActionShapes \X CompensateShapes] : n \in 0..MaxSteps } }

\* -------------------------------------------------------------- the state

VARIABLES
  saga,                    \* the *Saga every coordinator is bound to
  log,                     \* the Logs the Store holds, in the order appended
  ExecutionID,             \* c.ExecutionID
  returnedValuesFromFunc,  \* c.returnedValuesFromFunc
  toCompensate,            \* c.toCompensate
  aborted,                 \* c.aborted
  err,                     \* c.err
  pc,                      \* where coordinator c is in Play
  i,                       \* the i of Play's loop
  j,                       \* the i of abort's loop
  result,                  \* <<>> until Play returns, then <<Result.Err>>
  panicked,                \* the value Play panicked with, or Nil
  trace                    \* history: what c appended and called, in order

vars ==
  <<saga, log, ExecutionID, returnedValuesFromFunc, toCompensate, aborted, err,
    pc, i, j, result, panicked, trace>>

\* ------------------------------------------------------------ the history

(* One entry of trace: an append of a Log to the Store (op "log" when the   *)
(* Store took it, "logfault" when AppendLog returned an error), a call of  *)
(* a step's Func (op "action") or a call of a registered compensation      *)
(* (op "compensate").  step is the index the code works on; fnStep is the  *)
(* step whose callable was called; args and ret are what went in and out.  *)
LogEvent(fault, type, step, name) ==
  [op |-> IF fault = Nil THEN "log" ELSE "logfault",
   type |-> type, step |-> step, name |-> name,
   fnStep |-> NoStep, args |-> <<>>, ret |-> <<>>]

CallEvent(op, step, fn, args, ret) ==
  [op |-> op, type |-> fn.role, step |-> step, name |-> NoName,
   fnStep |-> fn.step, args |-> args, ret |-> ret]

\* -------------------------------------------------------- pure functions

\* addParams with the loop running over every returned value, the error slot too.
addParamsAll(values, returned) == values \o returned

\* addParams: the returned values but the last are appended to values.
addParams(values, returned) ==
  IF Len(returned) > 1
    THEN values \o SubSeq(returned, 1, Len(returned) - 1)
    ELSE values

\* isReturnError looking at the first returned value instead of the last.
isReturnErrorFirst(res) ==
  IF Len(res) > 0 /\ res[1] # Nil THEN res[1] ELSE Nil

\* isReturnError with the test len(result) > 1: a lone error is never seen.
isReturnErrorNeedsTwo(res) ==
  IF Len(res) > 1 /\ res[Len(res)] # Nil THEN res[Len(res)] ELSE Nil

\* isReturnError: the last returned value when it is not nil, else nil.
isReturnError(res) ==
  IF Len(res) > 0 /\ res[Len(res)] # Nil THEN res[Len(res)] ELSE Nil

\* checkErr that lets every error pass.
checkErrIgnore(e) == FALSE

\* checkErr: whether it panics.
checkErr(e) == e # Nil

\* getFuncValue without the check of the first parameter.
getFuncValueNoCtxCheck(obj) ==
  IF ~obj.isFunc THEN ErrNotFunc ELSE Nil

\* getFuncValue: the error it hands to checkErr, or Nil when it returns the func.
getFuncValue(obj) ==
  IF ~obj.isFunc THEN ErrNotFunc
  ELSE IF ~obj.ctxFirst THEN ErrNotCtx
  ELSE Nil

\* reflect.Value.Call: what a call of fn may return, by the results fn declares.
Call(fn) ==
  IF fn.numOut = 0 THEN { <<>> }
  ELSE IF fn.numOut = 1 THEN { <<e>> : e \in {Nil} \cup Errors }
  ELSE { <<v, e>> : v \in Values, e \in {Nil} \cup Errors }

\* A Log that leaves StepName out.
LogWithoutStepName(c, type, stepNumber, stepName) ==
  [ExecutionID |-> ExecutionID[c], Name |-> saga.Name, Type |-> type,
   StepNumber |-> stepNumber, StepName |-> NoName]

\* The Log of the coordinator c, without its Time.
Log(c, type, stepNumber, stepName) ==
  [ExecutionID |-> ExecutionID[c], Name |-> saga.Name, Type |-> type,
   StepNumber |-> stepNumber, StepName |-> stepName]

\* Store.AppendLog: the errors an append may return.
AppendLog == {Nil, StoreErr}

\* The Store after an append that returned fault: a faulting append stores nothing.
Stored(fault, entry) == IF fault = Nil THEN Append(log, entry) ELSE log

\* The number of steps to compensate without the step that failed.
stepsToCompensateButFailed(c) == Len(toCompensate[c]) - 1

\* abort, line 86: the number of steps to compensate.
stepsToCompensate(c) == Len(toCompensate[c])

\* ----------------------------------------------------------- the actions

\* A panic leaves Play: nothing of the coordinator runs afterwards.
Panic(c, e) ==
  /\ pc' = [pc EXCEPT ![c] = "Panicked"]
  /\ panicked' = [panicked EXCEPT ![c] = e]

\* NewCoordinator: the fields it sets; every other field has its zero value.
NewCoordinator(c) ==
  /\ ExecutionID[c] = ""
  /\ returnedValuesFromFunc[c] = <<>>
  /\ toCompensate[c] = <<>>
  /\ aborted[c] = FALSE
  /\ err[c] = Nil

\* The state before any Play: the coordinators as NewCoordinator returns them.
Fresh ==
  /\ log = <<>>
  /\ ExecutionID = [c \in Coordinators |-> ""]
  /\ returnedValuesFromFunc = [c \in Coordinators |-> <<>>]
  /\ toCompensate = [c \in Coordinators |-> <<>>]
  /\ aborted = [c \in Coordinators |-> FALSE]
  /\ err = [c \in Coordinators |-> Nil]
  /\ pc = [c \in Coordinators |-> "NotStarted"]
  /\ i = [c \in Coordinators |-> 0]
  /\ j = [c \in Coordinators |-> 0]
  /\ result = [c \in Coordinators |-> <<>>]
  /\ panicked = [c \in Coordinators |-> Nil]
  /\ trace = [c \in Coordinators |-> <<>>]
  /\ \A c \in Coordinators : NewCoordinator(c)

Init ==
  /\ saga \in Sagas
  /\ Fresh

\* Play, lines 36-41: the SagaStarted append, then the loop at i = 0.
Play(c) ==
  /\ pc[c] = "NotStarted"
  /\ \E fault \in AppendLog :
       /\ log' = Stored(fault, Log(c, LogTypeStartSaga, NoStep, NoName))
       /\ trace' = [trace EXCEPT
            ![c] = Append(@, LogEvent(fault, LogTypeStartSaga, NoStep, NoName))]
       /\ IF checkErr(fault)
            THEN /\ Panic(c, fault)
                 /\ UNCHANGED i
            ELSE /\ i' = [i EXCEPT ![c] = 0]
                 /\ pc' = [pc EXCEPT ![c] = "Loop"]
                 /\ UNCHANGED panicked
  /\ UNCHANGED <<saga, ExecutionID, returnedValuesFromFunc, toCompensate, aborted,
                 err, j, result>>

\* execStep that registers a step only after its action succeeded.
execStepRegistersOnSuccess(c) ==
  /\ pc[c] = "Loop"
  /\ i[c] < Len(saga.steps)
  /\ LET step == saga.steps[i[c] + 1]
         f == step.Func
         compensate == step.CompensateFunc
     IN
     IF aborted[c]
       THEN /\ i' = [i EXCEPT ![c] = @ + 1]
            /\ UNCHANGED <<log, returnedValuesFromFunc, toCompensate, err, pc,
                           panicked, trace>>
       ELSE
         \E fault \in AppendLog :
           LET started == LogEvent(fault, LogTypeSagaStepExec, i[c], step.Name) IN
           /\ log' = Stored(fault, Log(c, LogTypeSagaStepExec, i[c], step.Name))
           /\ IF checkErr(fault)
                THEN /\ trace' = [trace EXCEPT ![c] = Append(@, started)]
                     /\ Panic(c, fault)
                     /\ UNCHANGED <<returnedValuesFromFunc, toCompensate, err, i>>
              ELSE IF checkErr(getFuncValue(f))
                THEN /\ trace' = [trace EXCEPT ![c] = Append(@, started)]
                     /\ Panic(c, getFuncValue(f))
                     /\ UNCHANGED <<returnedValuesFromFunc, toCompensate, err, i>>
              ELSE
                \E resp \in Call(f) :
                  LET called == CallEvent("action", i[c], f, <<Ctx>>, resp) IN
                  /\ trace' = [trace EXCEPT ![c] = @ \o <<started, called>>]
                  /\ IF checkErr(getFuncValue(compensate))
                       THEN /\ Panic(c, getFuncValue(compensate))
                            /\ UNCHANGED <<returnedValuesFromFunc, toCompensate, err, i>>
                       ELSE /\ IF isReturnError(resp) # Nil
                                 THEN /\ err' = [err EXCEPT ![c] = isReturnError(resp)]
                                      /\ pc' = [pc EXCEPT ![c] = "abort"]
                                      /\ UNCHANGED <<i, toCompensate, returnedValuesFromFunc>>
                                 ELSE /\ toCompensate' =
                                           [toCompensate EXCEPT ![c] = Append(@, compensate)]
                                      /\ returnedValuesFromFunc' =
                                           [returnedValuesFromFunc EXCEPT
                                              ![c] = Append(@, resp)]
                                      /\ i' = [i EXCEPT ![c] = @ + 1]
                                      /\ UNCHANGED <<err, pc>>
                            /\ UNCHANGED panicked
  /\ UNCHANGED <<saga, ExecutionID, aborted, j, result>>

\* execStep without the return of an aborted coordinator.
execStepIgnoresAborted(c) ==
  /\ pc[c] = "Loop"
  /\ i[c] < Len(saga.steps)
  /\ LET step == saga.steps[i[c] + 1]
         f == step.Func
         compensate == step.CompensateFunc
     IN
     IF FALSE
       THEN /\ i' = [i EXCEPT ![c] = @ + 1]
            /\ UNCHANGED <<log, returnedValuesFromFunc, toCompensate, err, pc,
                           panicked, trace>>
       ELSE
         \E fault \in AppendLog :
           LET started == LogEvent(fault, LogTypeSagaStepExec, i[c], step.Name) IN
           /\ log' = Stored(fault, Log(c, LogTypeSagaStepExec, i[c], step.Name))
           /\ IF checkErr(fault)
                THEN /\ trace' = [trace EXCEPT ![c] = Append(@, started)]
                     /\ Panic(c, fault)
                     /\ UNCHANGED <<returnedValuesFromFunc, toCompensate, err, i>>
              ELSE IF checkErr(getFuncValue(f))
                THEN /\ trace' = [trace EXCEPT ![c] = Append(@, started)]
                     /\ Panic(c, getFuncValue(f))
                     /\ UNCHANGED <<returnedValuesFromFunc, toCompensate, err, i>>
              ELSE
                \E resp \in Call(f) :
                  LET called == CallEvent("action", i[c], f, <<Ctx>>, resp) IN
                  /\ trace' = [trace EXCEPT ![c] = @ \o <<started, called>>]
                  /\ IF checkErr(getFuncValue(compensate))
                       THEN /\ Panic(c, getFuncValue(compensate))
                            /\ UNCHANGED <<returnedValuesFromFunc, toCompensate, err, i>>
                       ELSE /\ toCompensate' =
                                 [toCompensate EXCEPT ![c] = Append(@, compensate)]
                            /\ returnedValuesFromFunc' =
                                 [returnedValuesFromFunc EXCEPT ![c] = Append(@, resp)]
                            /\ IF isReturnError(resp) # Nil
                                 THEN /\ err' = [err EXCEPT ![c] = isReturnError(resp)]
                                      /\ pc' = [pc EXCEPT ![c] = "abort"]
                                      /\ UNCHANGED i
                                 ELSE /\ i' = [i EXCEPT ![c] = @ + 1]
                                      /\ UNCHANGED <<err, pc>>
                            /\ UNCHANGED panicked
  /\ UNCHANGED <<saga, ExecutionID, aborted, j, result>>

(* execStep(i), lines 56-83, for one turn of Play's loop (line 43), up to  *)
(* the call of abort: the return of an aborted coordinator; else the       *)
(* StepStarted append, getFuncValue(f), the call, getFuncValue(compensate),*)
(* the two registrations and the look at the returned error.               *)
execStep(c) ==
  /\ pc[c] = "Loop"
  /\ i[c] < Len(saga.steps)
  /\ LET step == saga.steps[i[c] + 1]
         f == step.Func
         compensate == step.CompensateFunc
     IN
     IF aborted[c]
       THEN /\ i' = [i EXCEPT ![c] = @ + 1]
            /\ UNCHANGED <<log, returnedValuesFromFunc, toCompensate, err, pc,
                           panicked, trace>>
       ELSE
         \E fault \in AppendLog :
           LET started == LogEvent(fault, LogTypeSagaStepExec, i[c], step.Name) IN
           /\ log' = Stored(fault, Log(c, LogTypeSagaStepExec, i[c], step.Name))
           /\ IF checkErr(fault)
                THEN /\ trace' = [trace EXCEPT ![c] = Append(@, started)]
                     /\ Panic(c, fault)
                     /\ UNCHANGED <<returnedValuesFromFunc, toCompensate, err, i>>
              ELSE IF checkErr(getFuncValue(f))
                THEN /\ trace' = [trace EXCEPT ![c] = Append(@, started)]
                     /\ Panic(c, getFuncValue(f))
                     /\ UNCHANGED <<returnedValuesFromFunc, toCompensate, err, i>>
              ELSE
                \E resp \in Call(f) :
                  LET called == CallEvent("action", i[c], f, <<Ctx>>, resp) IN
                  /\ trace' = [trace EXCEPT ![c] = @ \o <<started, called>>]
                  /\ IF checkErr(getFuncValue(compensate))
                       THEN /\ Panic(c, getFuncValue(compensate))
                            /\ UNCHANGED <<returnedValuesFromFunc, toCompensate, err, i>>
                       ELSE /\ toCompensate' =
                                 [toCompensate EXCEPT ![c] = Append(@, compensate)]
                            /\ returnedValuesFromFunc' =
                                 [returnedValuesFromFunc EXCEPT ![c] = Append(@, resp)]
                            /\ IF isReturnError(resp) # Nil
                                 THEN /\ err' = [err EXCEPT ![c] = isReturnError(resp)]
                                      /\ pc' = [pc EXCEPT ![c] = "abort"]
                                      /\ UNCHANGED i
                                 ELSE /\ i' = [i EXCEPT ![c] = @ + 1]
                                      /\ UNCHANGED <<err, pc>>
                            /\ UNCHANGED panicked
  /\ UNCHANGED <<saga, ExecutionID, aborted, j, result>>

\* abort's loop with the bound i > 0 instead of i >= 0: step 0 is left out.
AfterCompensateSkipFirst(c, k) ==
  /\ j' = [j EXCEPT ![c] = k]
  /\ IF k > 0
       THEN /\ pc' = [pc EXCEPT ![c] = "compensate"]
            /\ UNCHANGED i
       ELSE /\ pc' = [pc EXCEPT ![c] = "Loop"]
            /\ i' = [i EXCEPT ![c] = @ + 1]

(* abort's loop, lines 96-98, at index k: compensateStep(k) is next, or    *)
(* the loop is over and abort and execStep return into Play's loop.        *)
AfterCompensate(c, k) ==
  /\ j' = [j EXCEPT ![c] = k]
  /\ IF k >= 0
       THEN /\ pc' = [pc EXCEPT ![c] = "compensate"]
            /\ UNCHANGED i
       ELSE /\ pc' = [pc EXCEPT ![c] = "Loop"]
            /\ i' = [i EXCEPT ![c] = @ + 1]

\* abort that also cuts the saga down to the steps it compensates.
abortTruncatesSaga(c) ==
  /\ pc[c] = "abort"
  /\ \E fault \in AppendLog :
       /\ log' = Stored(fault, Log(c, LogTypeSagaAbort, stepsToCompensate(c), NoName))
       /\ trace' = [trace EXCEPT
            ![c] = Append(@, LogEvent(fault, LogTypeSagaAbort, stepsToCompensate(c), NoName))]
       /\ IF checkErr(fault)
            THEN /\ Panic(c, fault)
                 /\ UNCHANGED <<aborted, i, j>>
            ELSE /\ aborted' = [aborted EXCEPT ![c] = TRUE]
                 /\ AfterCompensate(c, stepsToCompensate(c) - 1)
                 /\ UNCHANGED panicked
  /\ saga' = [saga EXCEPT !.steps = SubSeq(@, 1, stepsToCompensate(c))]
  /\ UNCHANGED <<ExecutionID, returnedValuesFromFunc, toCompensate, err, result>>

\* abort that never sets c.aborted.
abortWithoutFlag(c) ==
  /\ pc[c] = "abort"
  /\ \E fault \in AppendLog :
       /\ log' = Stored(fault, Log(c, LogTypeSagaAbort, stepsToCompensate(c), NoName))
       /\ trace' = [trace EXCEPT
            ![c] = Append(@, LogEvent(fault, LogTypeSagaAbort, stepsToCompensate(c), NoName))]
       /\ IF checkErr(fault)
            THEN /\ Panic(c, fault)
                 /\ UNCHANGED <<aborted, i, j>>
            ELSE /\ UNCHANGED aborted
                 /\ AfterCompensate(c, stepsToCompensate(c) - 1)
                 /\ UNCHANGED panicked
  /\ UNCHANGED <<saga, ExecutionID, returnedValuesFromFunc, toCompensate, err, result>>

\* abort, lines 85-96: the SagaAborted append, the flag, the loop's first index.
abort(c) ==
  /\ pc[c] = "abort"
  /\ \E fault \in AppendLog :
       /\ log' = Stored(fault, Log(c, LogTypeSagaAbort, stepsToCompensate(c), NoName))
       /\ trace' = [trace EXCEPT
            ![c] = Append(@, LogEvent(fault, LogTypeSagaAbort, stepsToCompensate(c), NoName))]
       /\ IF checkErr(fault)
            THEN /\ Panic(c, fault)
                 /\ UNCHANGED <<aborted, i, j>>
            ELSE /\ aborted' = [aborted EXCEPT ![c] = TRUE]
                 /\ AfterCompensate(c, stepsToCompensate(c) - 1)
                 /\ UNCHANGED panicked
  /\ UNCHANGED <<saga, ExecutionID, returnedValuesFromFunc, toCompensate, err, result>>

\* compensateStep that goes on to the next step when the compensation fails.
compensateStepGoesOn(c) ==
  /\ pc[c] = "compensate"
  /\ IF j[c] >= Len(saga.steps)
       THEN /\ Panic(c, ErrIndex)
            /\ UNCHANGED <<log, i, j, trace>>
       ELSE
         LET name == saga.steps[j[c] + 1].Name
             params == addParams(<<Ctx>>, returnedValuesFromFunc[c][j[c] + 1])
             compensateFunc == toCompensate[c][j[c] + 1]
         IN
         \E fault \in AppendLog :
           LET compensating == LogEvent(fault, LogTypeSagaStepCompensate, j[c], name) IN
           /\ log' = Stored(fault, Log(c, LogTypeSagaStepCompensate, j[c], name))
           /\ IF checkErr(fault)
                THEN /\ trace' = [trace EXCEPT ![c] = Append(@, compensating)]
                     /\ Panic(c, fault)
                     /\ UNCHANGED <<i, j>>
                ELSE
                  \E res \in Call(compensateFunc) :
                    LET called ==
                          CallEvent("compensate", j[c], compensateFunc, params, res)
                    IN
                    /\ trace' = [trace EXCEPT ![c] = @ \o <<compensating, called>>]
                    /\ AfterCompensate(c, j[c] - 1)
                    /\ UNCHANGED panicked
  /\ UNCHANGED <<saga, ExecutionID, returnedValuesFromFunc, toCompensate, aborted,
                 err, result>>

(* compensateStep(i), lines 101-119, for one turn of abort's loop: the     *)
(* StepCompensating append naming steps[i], the parameters, the call of    *)
(* toCompensate[i], and the panic on a returned error.                     *)
compensateStep(c) ==
  /\ pc[c] = "compensate"
  /\ IF j[c] >= Len(saga.steps)
       THEN /\ Panic(c, ErrIndex)
            /\ UNCHANGED <<log, i, j, trace>>
       ELSE
         LET name == saga.steps[j[c] + 1].Name
             params == addParams(<<Ctx>>, returnedValuesFromFunc[c][j[c] + 1])
             compensateFunc == toCompensate[c][j[c] + 1]
         IN
         \E fault \in AppendLog :
           LET compensating == LogEvent(fault, LogTypeSagaStepCompensate, j[c], name) IN
           /\ log' = Stored(fault, Log(c, LogTypeSagaStepCompensate, j[c], name))
           /\ IF checkErr(fault)
                THEN /\ trace' = [trace EXCEPT ![c] = Append(@, compensating)]
                     /\ Panic(c, fault)
                     /\ UNCHANGED <<i, j>>
                ELSE
                  \E res \in Call(compensateFunc) :
                    LET called ==
                          CallEvent("compensate", j[c], compensateFunc, params, res)
                    IN
                    /\ trace' = [trace EXCEPT ![c] = @ \o <<compensating, called>>]
                    /\ IF isReturnError(res) # Nil
                         THEN /\ Panic(c, isReturnError(res))
                              /\ UNCHANGED <<i, j>>
                         ELSE /\ AfterCompensate(c, j[c] - 1)
                              /\ UNCHANGED panicked
  /\ UNCHANGED <<saga, ExecutionID, returnedValuesFromFunc, toCompensate, aborted,
                 err, result>>

\* Play, lines 47-53: after the loop, the SagaCompleted append and the Result.
PlayReturn(c) ==
  /\ pc[c] = "Loop"
  /\ i[c] >= Len(saga.steps)
  /\ \E fault \in AppendLog :
       /\ log' = Stored(fault, Log(c, LogTypeSagaComplete, NoStep, NoName))
       /\ trace' = [trace EXCEPT
            ![c] = Append(@, LogEvent(fault, LogTypeSagaComplete, NoStep, NoName))]
       /\ IF checkErr(fault)
            THEN /\ Panic(c, fault)
                 /\ UNCHANGED result
            ELSE /\ result' = [result EXCEPT ![c] = <<err[c]>>]
                 /\ pc' = [pc EXCEPT ![c] = "Returned"]
                 /\ UNCHANGED panicked
  /\ UNCHANGED <<saga, ExecutionID, returnedValuesFromFunc, toCompensate, aborted,
                 err, i, j>>

\* Everything one coordinator does.
Run(c) ==
  \/ Play(c)
  \/ execStep(c)
  \/ abort(c)
  \/ compensateStep(c)
  \/ PlayReturn(c)

\* One fresh coordinator plays the saga.
Next == Run(1)

Spec == Init /\ [][Next]_vars

\* Play runs on the calling thread and every call it makes returns: a step
\* that can be taken is taken.
SpecFair == Init /\ [][Next]_vars /\ WF_vars(Next)

\* The Plays c has begun: the SagaStarted appends it made or was refused.
Plays(c) == Len(SelectSeq(trace[c], LAMBDA e : e.type = LogTypeStartSaga))

\* Play on a coordinator whose Play returned, with the run state put back to zero.
RePlayResets(c) ==
  /\ pc[c] = "Returned"
  /\ Plays(c) < MaxPlays
  /\ \E fault \in AppendLog :
       /\ log' = Stored(fault, Log(c, LogTypeStartSaga, NoStep, NoName))
       /\ trace' = [trace EXCEPT
            ![c] = Append(@, LogEvent(fault, LogTypeStartSaga, NoStep, NoName))]
       /\ IF checkErr(fault)
            THEN /\ Panic(c, fault)
                 /\ UNCHANGED i
            ELSE /\ i' = [i EXCEPT ![c] = 0]
                 /\ pc' = [pc EXCEPT ![c] = "Loop"]
                 /\ UNCHANGED panicked
  /\ returnedValuesFromFunc' = [returnedValuesFromFunc EXCEPT ![c] = <<>>]
  /\ toCompensate' = [toCompensate EXCEPT ![c] = <<>>]
  /\ aborted' = [aborted EXCEPT ![c] = FALSE]
  /\ err' = [err EXCEPT ![c] = Nil]
  /\ UNCHANGED <<saga, ExecutionID, j, result>>

(* Play called again on a coordinator whose Play returned, lines 36-41:    *)
(* the fields keep what the earlier run left in them.  result keeps the    *)
(* earlier Result until this Play returns its own.                         *)
RePlay(c) ==
  /\ pc[c] = "Returned"
  /\ Plays(c) < MaxPlays
  /\ \E fault \in AppendLog :
       /\ log' = Stored(fault, Log(c, LogTypeStartSaga, NoStep, NoName))
       /\ trace' = [trace EXCEPT
            ![c] = Append(@, LogEvent(fault, LogTypeStartSaga, NoStep, NoName))]
       /\ IF checkErr(fault)
            THEN /\ Panic(c, fault)
                 /\ UNCHANGED i
            ELSE /\ i' = [i EXCEPT ![c] = 0]
                 /\ pc' = [pc EXCEPT ![c] = "Loop"]
                 /\ UNCHANGED panicked
  /\ UNCHANGED <<saga, ExecutionID, returnedValuesFromFunc, toCompensate, aborted,
                 err, j, result>>

\* One coordinator, played up to MaxPlays times, each Play after the last returned.
NextReplay ==
  \/ Run(1)
  \/ RePlay(1)

SpecReplay == Init /\ [][NextReplay]_vars

\* The identities a caller may give a coordinator.
ExecutionIDs == {"x1", "x2"}

(* ExecutionID is an exported field that NewCoordinator leaves empty: the  *)
(* caller may assign it before Play.                                       *)
SetExecutionID(c) ==
  /\ pc[c] = "NotStarted"
  /\ ExecutionID[c] = ""
  /\ \E id \in ExecutionIDs : ExecutionID' = [ExecutionID EXCEPT ![c] = id]
  /\ UNCHANGED <<saga, log, returnedValuesFromFunc, toCompensate, aborted, err,
                 pc, i, j, result, panicked, trace>>

(* Two coordinators bound to the same Saga and the same Store, each played *)
(* once, their steps interleaved in any order.                             *)
NextConcurrent ==
  \E c \in Coordinators :
    \/ SetExecutionID(c)
    \/ Run(c)

InitConcurrent ==
  /\ saga \in { s \in Sagas : Len(s.steps) <= MaxConcurrentSteps }
  /\ Fresh

SpecConcurrent == InitConcurrent /\ [][NextConcurrent]_vars

\* --------------------------------------------- what the claims speak about

\* The entries of c's history with the given op, in order.
Of(c, op) == SelectSeq(trace[c], LAMBDA e : e.op = op)

\* What c did: its history without the appends the Store refused.
Done(c) == SelectSeq(trace[c], LAMBDA e : e.op # "logfault")

\* The Logs c appended, of one type.
Appended(c, type) == SelectSeq(trace[c], LAMBDA e : e.op = "log" /\ e.type = type)

\* The step indices of a sequence of entries.
Steps(seq) == [n \in 1..Len(seq) |-> seq[n].step]

\* <<0, 1, ..., k>> and <<k, k-1, ..., 0>>.
Up(k) == [n \in 1..(k + 1) |-> n - 1]

Down(k) == [n \in 1..(k + 1) |-> k + 1 - n]

IsPrefix(s, t) == Len(s) <= Len(t) /\ s = SubSeq(t, 1, Len(s))

\* A returned tuple whose trailing value is a non-nil error, and that error.
Failed(ret) == Len(ret) > 0 /\ ret[Len(ret)] \in Errors

\* The returned values before the trailing error slot.
NonError(ret) == [n \in 1..(IF Len(ret) = 0 THEN 0 ELSE Len(ret) - 1) |-> ret[n]]

\* An entry without its values: what was done, on which step, with whose callable.
Shape(e) == <<e.op, e.type, e.step, e.fnStep>>

ShapeSeq(seq) == [n \in 1..Len(seq) |-> Shape(seq[n])]

\* The history of a run of n steps that all succeed.
SuccessShape(n) ==
  [m \in 1..(2 * n + 2) |->
     IF m = 1 THEN <<"log", LogTypeStartSaga, NoStep, NoStep>>
     ELSE IF m = 2 * n + 2 THEN <<"log", LogTypeSagaComplete, NoStep, NoStep>>
     ELSE IF m % 2 = 0 THEN <<"log", LogTypeSagaStepExec, (m - 2) \div 2, NoStep>>
     ELSE <<"action", "Func", (m - 3) \div 2, (m - 3) \div 2>>]

NumSteps == Len(saga.steps)

\* ------------------------------------------------------------------ claims

(* C1: in a run (of a fresh coordinator, on a saga of any N >= 0 steps)    *)
(* whose actions all return a nil error, what the coordinator has done is  *)
(* at every moment a prefix of SagaStarted, StepStarted(0), action 0, ..., *)
(* StepStarted(N-1), action N-1, SagaCompleted: every action once, in      *)
(* order, no compensation, no SagaAborted.  Play has returned exactly when *)
(* the whole sequence is done, its Result carries a nil error and the      *)
(* coordinator has appended exactly 2+N events; short of a panic (a Store  *)
(* fault, a malformed callable) the run is never aborting or compensating. *)
C1_AllSuccess ==
  \A c \in Coordinators :
    (\A k \in 1..Len(trace[c]) :
        trace[c][k].op = "action" => ~Failed(trace[c][k].ret))
    =>
      /\ IsPrefix(ShapeSeq(Done(c)), SuccessShape(NumSteps))
      /\ err[c] = Nil
      /\ ~aborted[c]
      /\ (pc[c] = "Returned") = (ShapeSeq(Done(c)) = SuccessShape(NumSteps))
      /\ pc[c] = "Returned" =>
           /\ result[c] = <<Nil>>
           /\ Len(Of(c, "log")) = 2 + NumSteps
           /\ Len(Of(c, "action")) = NumSteps
      /\ pc[c] # "Returned" => result[c] = <<>>
      /\ panicked[c] = Nil => pc[c] \in {"NotStarted", "Loop", "Returned"}

\* Play returned from a run of two steps that both succeeded, one with a value.
C1_Witness ==
  /\ pc[1] = "Returned"
  /\ result[1] = <<Nil>>
  /\ NumSteps = 2
  /\ Len(Of(1, "action")) = 2
  /\ \E k \in 1..Len(trace[1]) : trace[1][k].ret = <<"42", Nil>>

(* C2: once the action of step k has returned a non-nil error, the actions *)
(* invoked are those of steps 0..k, once each in ascending order, each     *)
(* step with its own Func, and none of a step > k; the compensations       *)
(* invoked, all after that action, are at every moment a prefix of those   *)
(* of steps k, k-1, ..., 0, each step with its own CompensateFunc; and     *)
(* when the run gets through (no compensation and no append failed), all   *)
(* of k..0 were compensated and the Result carries step k's error.         *)
C2_FailureCompensatesInReverse ==
  \A c \in Coordinators :
    \A k \in 1..Len(trace[c]) :
      (trace[c][k].op = "action" /\ Failed(trace[c][k].ret)) =>
        LET failed == trace[c][k]
            acts == Of(c, "action")
            comps == Of(c, "compensate")
        IN
        /\ Steps(acts) = Up(failed.step)
        /\ \A n \in 1..Len(acts) : acts[n].fnStep = acts[n].step
        /\ IsPrefix(Steps(comps), Down(failed.step))
        /\ \A n \in 1..Len(comps) :
             comps[n].fnStep = comps[n].step /\ comps[n].type = "CompensateFunc"
        /\ \A m \in 1..Len(trace[c]) : trace[c][m].op = "compensate" => m > k
        /\ pc[c] \in {"Loop", "Returned"} => Steps(comps) = Down(failed.step)
        /\ pc[c] = "Returned" => result[c] = <<failed.ret[Len(failed.ret)]>>
        /\ pc[c] # "Returned" => result[c] = <<>>

\* Play returned after step 1 of 2 failed and steps 1 and 0 were compensated.
C2_Witness ==
  /\ pc[1] = "Returned"
  /\ result[1] = <<"errB">>
  /\ Steps(Of(1, "action")) = <<0, 1>>
  /\ Steps(Of(1, "compensate")) = <<1, 0>>

(* C3: every compensation invoked is that of a step whose action was       *)
(* invoked before it, once, in this run, and its arguments are the context *)
(* followed by exactly the values that action returned but the trailing    *)
(* error slot.                                                             *)
C3_CompensationGetsForwardResults ==
  \A c \in Coordinators :
    \A m \in 1..Len(trace[c]) :
      trace[c][m].op = "compensate" =>
        /\ trace[c][m].fnStep = trace[c][m].step
        /\ \E k \in 1..(m - 1) :
             /\ trace[c][k].op = "action"
             /\ trace[c][k].fnStep = trace[c][m].fnStep
             /\ trace[c][m].args = <<Ctx>> \o NonError(trace[c][k].ret)
             /\ \A n \in 1..Len(trace[c]) :
                  (trace[c][n].op = "action" /\ trace[c][n].fnStep = trace[c][m].fnStep)
                    => n = k

(* The action of step 0 returned (42, nil), that of step 1 an error alone: *)
(* step 1 was compensated with (ctx), step 0 with (ctx, 42).               *)
C3_Witness ==
  \E m, n \in 1..Len(trace[1]) :
    /\ trace[1][m].op = "compensate" /\ trace[1][m].step = 0
    /\ trace[1][m].args = <<Ctx, "42">>
    /\ trace[1][n].op = "compensate" /\ trace[1][n].step = 1
    /\ trace[1][n].args = <<Ctx>>
    /\ \E k \in 1..Len(trace[1]) : trace[1][k].ret = <<"errA">>

\* A callable getFuncValue refuses, and the error it refuses it with.
Malformed(fn) == ~fn.isFunc \/ ~fn.ctxFirst

ConfigError(fn) == IF ~fn.isFunc THEN ErrNotFunc ELSE ErrNotCtx

\* Whether trace[c][k] is the Log of the given type that c appended.
IsLog(e, type) == e.op = "log" /\ e.type = type

Last(seq) == seq[Len(seq)]

(* C4: a compensation that returned a non-nil error is the last thing the  *)
(* coordinator did: Play panicked with that error and returned no Result,  *)
(* and no compensation, action or append of this coordinator follows it.   *)
C4_CompensationFailureIsFatal ==
  \A c \in Coordinators :
    \A m \in 1..Len(trace[c]) :
      (trace[c][m].op = "compensate" /\ Failed(trace[c][m].ret)) =>
        /\ m = Len(trace[c])
        /\ pc[c] = "Panicked"
        /\ panicked[c] = trace[c][m].ret[Len(trace[c][m].ret)]
        /\ result[c] = <<>>
        /\ Last(log).Type = LogTypeSagaStepCompensate
        /\ Last(log).StepNumber = trace[c][m].step

\* Step 1 failed, its compensation succeeded, and the compensation of step 0 failed.
C4_Witness ==
  /\ pc[1] = "Panicked"
  /\ Len(trace[1]) > 0
  /\ Last(trace[1]).op = "compensate"
  /\ Last(trace[1]).step = 0
  /\ Failed(Last(trace[1]).ret)
  /\ Steps(Of(1, "action")) = <<0, 1>>

(* C5: an append the Store answered with an error is the last thing the    *)
(* coordinator did, whatever the event: Play panicked with the Store's     *)
(* error and returned no Result, the action or compensation the event      *)
(* announces was not invoked, and the Store holds exactly the events whose *)
(* append succeeded.                                                       *)
C5_LogFaultIsFatal ==
  /\ \A c \in Coordinators :
       \A m \in 1..Len(trace[c]) :
         trace[c][m].op = "logfault" =>
           /\ m = Len(trace[c])
           /\ pc[c] = "Panicked"
           /\ panicked[c] = StoreErr
           /\ result[c] = <<>>
  /\ Len(log) = Len(Of(1, "log")) + Len(Of(2, "log"))

\* The Store refused the StepCompensating event of step 0 after step 1 was compensated.
C5_Witness ==
  /\ Len(trace[1]) > 0
  /\ Last(trace[1]).op = "logfault"
  /\ Last(trace[1]).type = LogTypeSagaStepCompensate
  /\ Last(trace[1]).step = 0
  /\ Len(Of(1, "compensate")) = 1

(* C6: when the Func of step k is malformed, it is never invoked and no    *)
(* step > k is attempted; once StepStarted(k) is appended, that append is  *)
(* the last thing done: the actions of steps 0..k-1 were invoked, once     *)
(* each, and succeeded, Play panicked with getFuncValue's configuration    *)
(* error, returned no Result, recorded no step error, and neither          *)
(* appended SagaAborted nor invoked a compensation.  With the callables    *)
(* before step k well-formed, no configuration error is raised earlier.    *)
C6_MalformedActionIsFatalAtItsStep ==
  \A c \in Coordinators :
    \A s \in 0..(NumSteps - 1) :
      Malformed(saga.steps[s + 1].Func) =>
        /\ \A m \in 1..Len(trace[c]) :
             /\ trace[c][m].op = "action" => trace[c][m].step < s
             /\ trace[c][m].type = LogTypeSagaStepExec => trace[c][m].step <= s
        /\ (\E m \in 1..Len(trace[c]) :
               IsLog(trace[c][m], LogTypeSagaStepExec) /\ trace[c][m].step = s)
           =>
             /\ IsLog(Last(trace[c]), LogTypeSagaStepExec)
             /\ Last(trace[c]).step = s
             /\ pc[c] = "Panicked"
             /\ panicked[c] = ConfigError(saga.steps[s + 1].Func)
             /\ result[c] = <<>>
             /\ err[c] = Nil
             /\ ~aborted[c]
             /\ Appended(c, LogTypeSagaAbort) = <<>>
             /\ Of(c, "compensate") = <<>>
             /\ Steps(Of(c, "action")) = Up(s - 1)
             /\ \A n \in 1..Len(trace[c]) :
                  trace[c][n].op = "action" => ~Failed(trace[c][n].ret)
        /\ ( /\ \A t \in 0..(s - 1) :
                  /\ ~Malformed(saga.steps[t + 1].Func)
                  /\ ~Malformed(saga.steps[t + 1].CompensateFunc)
             /\ panicked[c] \in {ErrNotFunc, ErrNotCtx} )
           => /\ IsLog(Last(trace[c]), LogTypeSagaStepExec)
              /\ Last(trace[c]).step = s

\* Step 0 succeeded and the Func of step 1 does not take the context first.
C6_Witness ==
  /\ NumSteps = 2
  /\ saga.steps[2].Func.isFunc
  /\ ~saga.steps[2].Func.ctxFirst
  /\ pc[1] = "Panicked"
  /\ panicked[1] = ErrNotCtx
  /\ Steps(Of(1, "action")) = <<0>>
  /\ Last(trace[1]).step = 1

(* C7: a coordinator that appended SagaAborted appends no SagaCompleted,   *)
(* a Result with a non-nil error comes without a SagaCompleted event, and  *)
(* SagaCompleted is appended only after every step's action was invoked    *)
(* and none failed.                                                        *)
C7_CompletedExcludesAborted ==
  \A c \in Coordinators :
    /\ Appended(c, LogTypeSagaAbort) # <<>> => Appended(c, LogTypeSagaComplete) = <<>>
    /\ (result[c] # <<>> /\ result[c] # <<Nil>>) =>
         Appended(c, LogTypeSagaComplete) = <<>>
    /\ Appended(c, LogTypeSagaComplete) # <<>> =>
         /\ Steps(Of(c, "action")) = Up(NumSteps - 1)
         /\ \A n \in 1..Len(trace[c]) :
              trace[c][n].op = "action" => ~Failed(trace[c][n].ret)

(* C8: no step of any run, successful, aborted or fatally escalated,       *)
(* changes the Saga: its Name, its steps, their order, and every step's    *)
(* Name, Func and CompensateFunc stay what they were.                      *)
C8_SagaNeverMutated == [][saga' = saga]_vars

\* A run of two steps that aborted, compensated both and returned.
C8_Witness ==
  /\ pc[1] = "Returned"
  /\ aborted[1]
  /\ NumSteps = 2
  /\ Len(Of(1, "compensate")) = 2
  /\ saga \in Sagas

\* The Logs the Store would hold had c run alone: those c appended, in order.
OwnLogs(c) ==
  LET own == Of(c, "log") IN
  [n \in 1..Len(own) |-> Log(c, own[n].type, own[n].step, own[n].name)]

(* The run state of c comes from c's own actions alone: the registered     *)
(* results and compensations are those of the actions c itself invoked, in *)
(* order; c.err is the error one of c's own actions returned; c is aborted *)
(* and c compensates only when one of c's own actions failed.              *)
C9_OwnRunState ==
  \A c \in Coordinators :
    LET acts == Of(c, "action")
        ownFailure == \E n \in 1..Len(acts) : Failed(acts[n].ret)
    IN
    /\ Len(returnedValuesFromFunc[c]) = Len(toCompensate[c])
    /\ Len(returnedValuesFromFunc[c]) <= Len(acts)
    /\ \A n \in 1..Len(returnedValuesFromFunc[c]) :
         /\ returnedValuesFromFunc[c][n] = acts[n].ret
         /\ toCompensate[c][n] = saga.steps[acts[n].step + 1].CompensateFunc
    /\ err[c] # Nil => \E n \in 1..Len(acts) : acts[n].ret[Len(acts[n].ret)] = err[c]
    /\ aborted[c] => ownFailure
    /\ Of(c, "compensate") # <<>> => ownFailure
    /\ result[c] # <<>> => result[c] = <<err[c]>>

(* C9: with two coordinators on one Saga and one Store, interleaved in any *)
(* order, each coordinator's run state is the work of its own actions, and *)
(* the events of the Store that carry a coordinator's ExecutionID are      *)
(* those this coordinator appended, in the order it appended them, as if   *)
(* it had run alone (for a coordinator whose Play has begun).              *)
C9_ConcurrentRunsAreIndependent ==
  /\ C9_OwnRunState
  /\ \A c \in Coordinators :
       pc[c] # "NotStarted" =>
         SelectSeq(log, LAMBDA l : l.ExecutionID = ExecutionID[c]) = OwnLogs(c)

(* C10: a coordinator appends at most one SagaAborted; a SagaAborted comes *)
(* after the failing action of some step k (hence after StepStarted(k)),   *)
(* carries the count k+1, the number of actions invoked so far, and comes  *)
(* before every StepCompensating; a run with a failed action that got past *)
(* the append (to compensating, to Play's loop, to the return) appended    *)
(* exactly one; a run in which no action failed appends neither a          *)
(* SagaAborted nor a StepCompensating.                                     *)
C10_OneSagaAbortedWithCount ==
  \A c \in Coordinators :
    LET someFailed ==
          \E k \in 1..Len(trace[c]) :
            trace[c][k].op = "action" /\ Failed(trace[c][k].ret)
    IN
    /\ Len(Appended(c, LogTypeSagaAbort)) <= 1
    /\ \A m \in 1..Len(trace[c]) :
         IsLog(trace[c][m], LogTypeSagaAbort) =>
           /\ m > 2
           /\ trace[c][m - 1].op = "action"
           /\ Failed(trace[c][m - 1].ret)
           /\ IsLog(trace[c][m - 2], LogTypeSagaStepExec)
           /\ trace[c][m - 2].step = trace[c][m - 1].step
           /\ trace[c][m].step = trace[c][m - 1].step + 1
           /\ trace[c][m].step = Len(Of(c, "action"))
    /\ \A m \in 1..Len(trace[c]) :
         trace[c][m].type = LogTypeSagaStepCompensate =>
           \E a \in 1..(m - 1) : IsLog(trace[c][a], LogTypeSagaAbort)
    /\ (someFailed /\ pc[c] \in {"compensate", "Loop", "Returned"}) =>
         Len(Appended(c, LogTypeSagaAbort)) = 1
    /\ ~someFailed =>
         \A m \in 1..Len(trace[c]) :
           trace[c][m].type \notin {LogTypeSagaAbort, LogTypeSagaStepCompensate}

\* Step 1 of 2 failed: SagaAborted carries 2 and a StepCompensating followed.
C10_Witness ==
  \E m \in 1..Len(trace[1]) :
    /\ IsLog(trace[1][m], LogTypeSagaAbort)
    /\ trace[1][m].step = 2
    /\ m < Len(trace[1])
    /\ IsLog(trace[1][m + 1], LogTypeSagaStepCompensate)

\* The Log the Store must hold for the entry e of c's history.
LogOf(c, e) ==
  [ExecutionID |-> ExecutionID[c], Name |-> saga.Name, Type |-> e.type,
   StepNumber |-> e.step, StepName |-> e.name]

(* C11: the first thing a coordinator does is the append of SagaStarted;   *)
(* every call of an action is that of step i's Func and comes right after  *)
(* the successful append of StepStarted carrying i and step i's name,      *)
(* every call of a compensation is that of step i's CompensateFunc and     *)
(* comes right after the successful append of StepCompensating carrying i  *)
(* and step i's name; and the Store holds the appended events with these   *)
(* fields in the order of the appends.                                     *)
C11_LoggedBeforeActedOn ==
  /\ \A c \in Coordinators :
       /\ Len(trace[c]) > 0 =>
            /\ trace[c][1].type = LogTypeStartSaga
            /\ trace[c][1].op \in {"log", "logfault"}
       /\ \A m \in 1..Len(trace[c]) :
            /\ trace[c][m].op = "action" =>
                 /\ m > 1
                 /\ IsLog(trace[c][m - 1], LogTypeSagaStepExec)
                 /\ trace[c][m - 1].step = trace[c][m].step
                 /\ trace[c][m - 1].name = saga.steps[trace[c][m].step + 1].Name
                 /\ trace[c][m].fnStep = trace[c][m].step
                 /\ trace[c][m].type = "Func"
            /\ trace[c][m].op = "compensate" =>
                 /\ m > 1
                 /\ IsLog(trace[c][m - 1], LogTypeSagaStepCompensate)
                 /\ trace[c][m - 1].step = trace[c][m].step
                 /\ trace[c][m - 1].name = saga.steps[trace[c][m].step + 1].Name
                 /\ trace[c][m].fnStep = trace[c][m].step
                 /\ trace[c][m].type = "CompensateFunc"
  /\ LET own == Of(1, "log") IN
     log = [n \in 1..Len(own) |-> LogOf(1, own[n])]

\* Step 1 failed and both steps were compensated: six events are in the Store.
C11_Witness ==
  /\ Len(log) = 6
  /\ log[3].Type = LogTypeSagaStepExec
  /\ log[3].StepName = StepName(1)
  /\ log[6].Type = LogTypeSagaStepCompensate
  /\ log[6].StepName = StepName(0)
  /\ Last(trace[1]).op = "compensate"

(* C12: during a Play of a fresh coordinator, returnedValuesFromFunc and   *)
(* toCompensate have the same length, never more than the number of steps; *)
(* while the run goes on (and after it returned) that length is the number *)
(* of actions invoked so far; entry i holds what step i's action returned  *)
(* and step i's CompensateFunc; a step whose action failed is registered   *)
(* before its error is acted on.  (A run that panicked because the         *)
(* CompensateFunc of the step just invoked was refused holds one entry     *)
(* less than the actions invoked.)                                         *)
C12_RegisteredEntriesMatchInvokedActions ==
  \A c \in Coordinators :
    LET acts == Of(c, "action")
        rets == returnedValuesFromFunc[c]
    IN
    /\ Len(rets) = Len(toCompensate[c])
    /\ Len(rets) <= NumSteps
    /\ pc[c] # "Panicked" => Len(rets) = Len(acts)
    /\ pc[c] = "Panicked" =>
         Len(rets) = IF Len(trace[c]) > 0 /\ Last(trace[c]).op = "action"
                       THEN Len(acts) - 1
                       ELSE Len(acts)
    /\ \A n \in 1..Len(rets) :
         /\ acts[n].step = n - 1
         /\ rets[n] = acts[n].ret
         /\ toCompensate[c][n] = saga.steps[n].CompensateFunc
    /\ pc[c] = "abort" =>
         /\ Len(rets) > 0
         /\ Failed(Last(rets))
         /\ err[c] = Last(Last(rets))
    /\ (\E n \in 1..Len(acts) : Failed(acts[n].ret)) /\ pc[c] # "Panicked" =>
         Failed(Last(rets))

\* The action of step 1 just failed: both steps are registered, abort has not begun.
C12_Witness ==
  /\ pc[1] = "abort"
  /\ Len(returnedValuesFromFunc[1]) = 2
  /\ returnedValuesFromFunc[1][1] = <<"7", Nil>>
  /\ returnedValuesFromFunc[1][2] = <<"errA">>
  /\ Len(toCompensate[1]) = 2

\* The calls of actions, and of compensations, in a history.
ActionsIn(t) == SelectSeq(t, LAMBDA e : e.op = "action")

CompensationsIn(t) == SelectSeq(t, LAMBDA e : e.op = "compensate")

(* C13: in every step of every run, a later Play on the same coordinator   *)
(* included: c.aborted, once set, stays set; it is set only with c.err     *)
(* non-nil; c.err, once non-nil, is never assigned again; no action is     *)
(* invoked by a coordinator whose aborted flag is set; and no action is    *)
(* invoked after a compensation was.                                       *)
C13_AbortedGuardsForwardProgress ==
  [][\A c \in Coordinators :
       /\ aborted[c] => aborted'[c]
       /\ aborted'[c] => err'[c] # Nil
       /\ err[c] # Nil => err'[c] = err[c]
       /\ aborted[c] => ActionsIn(trace'[c]) = ActionsIn(trace[c])
       /\ CompensationsIn(trace[c]) # <<>> =>
            ActionsIn(trace'[c]) = ActionsIn(trace[c])]_vars

\* Step 0 of 2 failed and was compensated: Play's loop is at step 1, which it skips.
C13_Witness ==
  /\ pc[1] = "Loop"
  /\ aborted[1]
  /\ i[1] = 1
  /\ NumSteps = 2
  /\ Len(Of(1, "compensate")) = 1

(* C14: a callable is validated when it is about to be invoked: a panic    *)
(* with a configuration error comes right after the append of the event    *)
(* that announces the refused callable (StepStarted for a Func,            *)
(* StepCompensating for a CompensateFunc); a run whose Funcs are all       *)
(* well-formed, whose actions all succeed and whose appends all succeed    *)
(* never panics, whatever its CompensateFuncs; and once the action of a    *)
(* step is invoked, a malformed CompensateFunc of that step does not end   *)
(* the run before abort is entered.                                        *)
C14_ValidationIsLazy ==
  \A c \in Coordinators :
    /\ panicked[c] \in {ErrNotFunc, ErrNotCtx} =>
         /\ Last(trace[c]).op = "log"
         /\ \/ /\ Last(trace[c]).type = LogTypeSagaStepExec
               /\ Malformed(saga.steps[Last(trace[c]).step + 1].Func)
            \/ /\ Last(trace[c]).type = LogTypeSagaStepCompensate
               /\ Malformed(saga.steps[Last(trace[c]).step + 1].CompensateFunc)
    /\ ( /\ \A s \in 1..NumSteps : ~Malformed(saga.steps[s].Func)
         /\ \A m \in 1..Len(trace[c]) :
              /\ trace[c][m].op # "logfault"
              /\ trace[c][m].op = "action" => ~Failed(trace[c][m].ret) )
       => panicked[c] = Nil
    /\ \A m \in 1..Len(trace[c]) :
         ( /\ trace[c][m].op = "action"
           /\ Malformed(saga.steps[trace[c][m].step + 1].CompensateFunc)
           /\ Failed(trace[c][m].ret) )
         => \/ pc[c] = "abort"
            \/ \E n \in (m + 1)..Len(trace[c]) : trace[c][n].type = LogTypeSagaAbort

\* Whether abort is what c does next after entry m of its history.
AbortFollows(c, m) ==
  IF m = Len(trace[c])
    THEN pc[c] = "abort"
    ELSE trace[c][m + 1].type = LogTypeSagaAbort

(* C15: the trailing returned value alone decides.  After a call of an     *)
(* action, abort is what the coordinator does next exactly when the last   *)
(* returned value is a non-nil error (whatever the values before it), and  *)
(* c.err is then that error; the one run that ends otherwise is that which *)
(* panics on the step's malformed CompensateFunc (C14).  After a call of a *)
(* compensation, Play panics exactly when its last returned value is a     *)
(* non-nil error.  An action that declares no result is never followed by  *)
(* abort and its compensation is called with the context alone; a          *)
(* compensation that declares no result is never followed by a panic.      *)
C15_TrailingValueIsTheErrorChannel ==
  \A c \in Coordinators :
    \A m \in 1..Len(trace[c]) :
      LET e == trace[c][m]
          endedByPanic == m = Len(trace[c]) /\ pc[c] = "Panicked"
      IN
      /\ e.op = "action" =>
           /\ ~endedByPanic => (Failed(e.ret) <=> AbortFollows(c, m))
           /\ endedByPanic =>
                /\ Malformed(saga.steps[e.step + 1].CompensateFunc)
                /\ panicked[c] = ConfigError(saga.steps[e.step + 1].CompensateFunc)
           /\ AbortFollows(c, m) => err[c] = Last(e.ret)
           /\ saga.steps[e.fnStep + 1].Func.numOut = 0 =>
                /\ e.ret = <<>>
                /\ ~AbortFollows(c, m)
      /\ e.op = "compensate" =>
           /\ Failed(e.ret) <=> endedByPanic
           /\ endedByPanic => panicked[c] = Last(e.ret)
           /\ saga.steps[e.fnStep + 1].Func.numOut = 0 => e.args = <<Ctx>>
           /\ saga.steps[e.fnStep + 1].CompensateFunc.numOut = 0 =>
                /\ e.ret = <<>>
                /\ ~endedByPanic

(* Step 0 declares no result in its Func and in its CompensateFunc; step 1 *)
(* returned a value and an error; both were compensated and Play returned. *)
C15_Witness ==
  /\ NumSteps = 2
  /\ saga.steps[1].Func.numOut = 0
  /\ saga.steps[1].CompensateFunc.numOut = 0
  /\ pc[1] = "Returned"
  /\ result[1] = <<"errA">>
  /\ Steps(Of(1, "compensate")) = <<1, 0>>
  /\ \E m \in 1..Len(trace[1]) : trace[1][m].ret = <<"42", "errA">>

\* The calls of Store.AppendLog made by c, failed ones included.
Appends(c) == SelectSeq(trace[c], LAMBDA e : e.op \in {"log", "logfault"})

\* No step occurs twice in a sequence of history entries.
OncePerStep(seq) ==
  \A m, n \in 1..Len(seq) : seq[m].step = seq[n].step => m = n

(* C16: Play on a fresh coordinator terminates within its resources.  At   *)
(* every point of the run the saga of N steps has seen at most N calls of  *)
(* an action, at most N calls of a compensation and at most 2N+3 log       *)
(* appends, no step's action and no step's compensation has been called    *)
(* twice; and, every call returning, the run eventually ends: Play returns *)
(* a Result or panics.                                                     *)
C16_PlayTerminatesWithinBounds ==
  /\ [](\A c \in Coordinators :
          /\ Len(Of(c, "action")) <= NumSteps
          /\ Len(Of(c, "compensate")) <= NumSteps
          /\ Len(Appends(c)) <= 2 * NumSteps + 3
          /\ OncePerStep(Of(c, "action"))
          /\ OncePerStep(Of(c, "compensate")))
  /\ <>(pc[1] \in {"Returned", "Panicked"})

(* Play returned after the last of two steps failed: two actions, two      *)
(* compensations and 2N+3 = 7 appends.                                     *)
C16_Witness ==
  /\ NumSteps = 2
  /\ pc[1] = "Returned"
  /\ Len(Of(1, "action")) = 2
  /\ Len(Of(1, "compensate")) = 2
  /\ Len(Appends(1)) = 7

\* Entry m of c's history belongs to a Play begun after a SagaAborted was logged.
AfterAbortedPlay(c, m) ==
  \E n, p \in 1..m :
    /\ n < p
    /\ IsLog(trace[c][n], LogTypeSagaAbort)
    /\ trace[c][p].type = LogTypeStartSaga

(* C17: Play does not reset the run state.  Everything a coordinator does  *)
(* in a Play begun after its earlier Play aborted and returned is an       *)
(* append of SagaStarted or SagaCompleted: no action and no compensation   *)
(* is called, no StepStarted, SagaAborted or StepCompensating is appended. *)
(* Every Result such a coordinator has returned, in the run that aborted   *)
(* and in each later one, carries the error of the one action that failed. *)
C17_PlayAfterAbortDoesNothing ==
  \A c \in Coordinators :
    /\ \A m \in 1..Len(trace[c]) :
         AfterAbortedPlay(c, m) =>
           /\ trace[c][m].op \in {"log", "logfault"}
           /\ trace[c][m].type \in {LogTypeStartSaga, LogTypeSagaComplete}
    /\ ( /\ pc[c] = "Returned"
         /\ Len(Appended(c, LogTypeSagaAbort)) > 0 )
       => /\ Len(Appended(c, LogTypeSagaAbort)) = 1
          /\ \E m \in 1..Len(trace[c]) :
               /\ trace[c][m].op = "action"
               /\ Failed(trace[c][m].ret)
               /\ result[c] = <<Last(trace[c][m].ret)>>
               /\ \A n \in 1..Len(trace[c]) :
                    (trace[c][n].op = "action" /\ Failed(trace[c][n].ret)) => n = m

(* The second Play of a coordinator whose first Play aborted has returned: *)
(* the history ends with the SagaStarted and SagaCompleted of that Play.   *)
C17_Witness ==
  /\ Plays(1) = 2
  /\ pc[1] = "Returned"
  /\ aborted[1]
  /\ result[1] = <<"errB">>
  /\ Len(Of(1, "compensate")) = 1
  /\ IsLog(trace[1][Len(trace[1]) - 1], LogTypeStartSaga)
  /\ IsLog(Last(trace[1]), LogTypeSagaComplete)

(* C18: the compensation indices stay inside the saga however often Play   *)
(* is called on one coordinator.  toCompensate and returnedValuesFromFunc  *)
(* never hold more entries than the saga has steps, entry n of             *)
(* toCompensate is the CompensateFunc of saga step n, every index abort    *)
(* hands to compensateStep is at least 0 and below the number of steps,    *)
(* and no SagaAborted carries a count above the number of steps.           *)
C18_CompensationIndicesStayInsideSaga ==
  \A c \in Coordinators :
    /\ Len(toCompensate[c]) <= NumSteps
    /\ Len(returnedValuesFromFunc[c]) <= NumSteps
    /\ \A n \in 1..Len(toCompensate[c]) :
         /\ n <= NumSteps
         /\ toCompensate[c][n] = saga.steps[n].CompensateFunc
    /\ pc[c] = "compensate" => (0 <= j[c] /\ j[c] < NumSteps)
    /\ \A m \in 1..Len(trace[c]) :
         trace[c][m].type = LogTypeSagaAbort => trace[c][m].step <= NumSteps
    /\ panicked[c] # ErrIndex

====
